---- MODULE Spec2Model ----
(***************************************************************************)
(* Model of protor: the crawl controller (Crawler.crawl), its background   *)
(* analysis worker (Crawler.analysis_worker), and the scrape pipeline      *)
(* (fetch_with_curl, extract_links, scrape_website, scrape_multiple).      *)
(***************************************************************************)
EXTENDS Integers, Sequences, FiniteSets, TLC

(* ------------------------------ bounds -------------------------------- *)
\* number of distinct same-site URLs that exist; URL 1 is the start URL
NumUrls == 3
\* largest page budget (--max-pages) explored
MaxPagesBound == 3
\* longest URL list handed to scrape_multiple
MaxBatch == 2
\* largest set whose iteration orders are all explored
MaxEnumerated == 3

(* ------------------------------ universe ------------------------------ *)
\* a same-site URL without fragment, scheme https
Urls == 1..NumUrls
start_url == 1
\* hrefs as they are after urljoin(base_url, href): besides the Urls,
\* one URL on a foreign host,
Ext == 0
\* one URL on the same host with scheme ftp,
Ftp == -1
\* and URL u followed by "#section", written u + FragOffset
FragOffset == 100
WithFragment(u) == u + FragOffset
Hrefs == Urls \cup {Ext}

\* urlparse(url).netloc
Netloc(u) == IF u = Ext THEN "external" ELSE "site"

\* urlparse(url).scheme
Scheme(u) == IF u = Ftp THEN "ftp" ELSE "https"

HasFragment(u) == u > FragOffset

\* full_url.split("#")[0]
StripFragment_keeps(u) == u

StripFragment(u) == IF HasFragment(u) THEN u - FragOffset ELSE u

\* script src attributes: k > 0 is the absolute URL of script k, -k is the
\* relative path of the same script; urljoin resolves both to k
urljoin(src) == IF src < 0 THEN 0 - src ELSE src

\* line 152: at most this many scripts are downloaded
MaxJsDownloads == 10

\* script lists of the pages explored: a script referenced by a relative
\* and by an absolute src, two scripts, a repeated script among two, and
\* one script more than the download limit
ScriptLists ==
  { <<0 - 1, 1>>, <<1, 2>>, <<2, 1, 2>>, [i \in 1..(MaxJsDownloads + 1) |-> i] }

\* hyperlink sets that exercise the scheme test and the fragment removal
SpecialHrefs ==
  {{Ftp, Ext}} \cup {{WithFragment(u)} : u \in Urls}
    \cup {{Ext, u, WithFragment(u)} : u \in Urls}

\* scraper.py line 106: the longest text_content kept
MaxTextLen == 10000

\* page content: the empty string; pages with a title and some set of
\* hyperlinks; a page without <title>; a page whose <title> has no text;
\* pages with <script src> elements; pages whose text is longer than
\* MaxTextLen. title is "absent", "empty" or "text"; text is the number of
\* characters left of the page once tags and blank lines are stripped.
EmptyHtml ==
  [nonempty |-> FALSE, hrefs |-> {}, title |-> "absent", scripts |-> <<>>, text |-> 0]
Pages ==
  {EmptyHtml}
    \cup {[nonempty |-> TRUE, hrefs |-> h, title |-> "text", scripts |-> <<>>, text |-> 120] :
            h \in {g \in SUBSET Hrefs : Ext \in g => g = {Ext}} \cup SpecialHrefs}
    \cup {[nonempty |-> TRUE, hrefs |-> {}, title |-> t, scripts |-> <<>>, text |-> 120] :
            t \in {"absent", "empty"}}
    \cup {[nonempty |-> TRUE, hrefs |-> {}, title |-> "text", scripts |-> sc, text |-> 120] :
            sc \in ScriptLists}
    \cup {[nonempty |-> TRUE, hrefs |-> {}, title |-> "text", scripts |-> <<>>, text |-> n] :
            n \in {MaxTextLen + 1, 5 * MaxTextLen}}

Range(s) == {s[i] : i \in 1..Len(s)}

NoDuplicates(s) == \A i, j \in 1..Len(s) : i # j => s[i] # s[j]

\* the elements of a set of numbers in increasing order (the order in which
\* the explored markup lists its hyperlinks)
RECURSIVE SortedSeq(_)
SortedSeq(S) ==
  IF S = {} THEN <<>>
  ELSE LET m == CHOOSE x \in S : \A y \in S : x <= y
       IN <<m>> \o SortedSeq(S \ {m})

\* all orders of a set
Orderings(S) ==
  {s \in [1..Cardinality(S) -> S] : \A i, j \in 1..Cardinality(S) : i # j => s[i] # s[j]}

Reverse(s) == [i \in 1..Len(s) |-> s[Len(s) + 1 - i]]

\* list(set(s)): the elements of s without repetition, in the arbitrary order
\* of set iteration. Every order is explored for sets of up to MaxEnumerated
\* elements; for larger sets two of the orders, the increasing and the
\* decreasing one.
ListOfSet(s) ==
  IF Cardinality(Range(s)) <= MaxEnumerated
  THEN Orderings(Range(s))
  ELSE {SortedSeq(Range(s)), Reverse(SortedSeq(Range(s)))}

(* --------------------------- pure functions --------------------------- *)
\* fetch_with_curl: exc = subprocess.run raised, rc = curl's exit status,
\* out = what curl wrote to stdout
fetch_with_curl(exc, rc, out) ==
  IF exc THEN [html |-> EmptyHtml, ok |-> FALSE]
  ELSE [html |-> out, ok |-> (rc = 0 /\ out.nonempty)]

\* what curl may have written when it ends with a non-zero status (for
\* instance 28, --max-time exceeded): nothing, or the part received so far
PartialOutputs ==
  {EmptyHtml, [nonempty |-> TRUE, hrefs |-> {}, title |-> "text", scripts |-> <<>>, text |-> 120]}

\* every result fetch_with_curl can produce for a URL that serves one of
\* the pages P
FetchResults(P) ==
  {fetch_with_curl(exc, 0, out) : exc \in BOOLEAN, out \in P}
    \cup {fetch_with_curl(FALSE, 1, out) : out \in PartialOutputs}

\* the crawl loop reads only the hyperlinks of the html it fetched (line 262),
\* scrape_website everything but the hyperlinks (lines 141-157)
LinkPages ==
  {p \in Pages : p.scripts = <<>> /\ p.text <= MaxTextLen /\ (p.nonempty => p.title = "text")}
ScrapePages == {p \in Pages : p.hrefs = {}}

Min(a, b) == IF a <= b THEN a ELSE b

\* scraper.py line 106: `return text[:10000]`, for a stripped text of
\* raw_len characters
extract_text_content(raw_len) == Min(raw_len, MaxTextLen)

\* extract_links without the netloc test of line 84
links_list_noHostFilter(html, base_url) ==
  LET anchors == SortedSeq(html.hrefs)
      internal == SelectSeq(anchors, LAMBDA h : Scheme(h) \in {"http", "https"})
      clean == [i \in 1..Len(internal) |-> StripFragment(internal[i])]
  IN SelectSeq(clean, LAMBDA u : u # base_url)

\* extract_links lines 76-89: the list `links`, in document order
links_list(html, base_url) ==
  LET anchors == SortedSeq(html.hrefs)
      internal == SelectSeq(anchors, LAMBDA h : /\ Netloc(h) = Netloc(base_url)
                                                 /\ Scheme(h) \in {"http", "https"})
      clean == [i \in 1..Len(internal) |-> StripFragment(internal[i])]
  IN SelectSeq(clean, LAMBDA u : u # base_url)

\* extract_links line 91: the lists that list(set(links)) may return
extract_links(html, base_url) == ListOfSet(links_list(html, base_url))

\* extract_js_links lines 63-68: the list `js_links`, in document order
js_links_list(html) == [i \in 1..Len(html.scripts) |-> urljoin(html.scripts[i])]

\* extract_js_links line 70: the lists that list(set(js_links)) may return
extract_js_links_noSet(html) == {js_links_list(html)}

extract_js_links(html) == ListOfSet(js_links_list(html))

\* extract_metadata raises AttributeError when soup.title.string is None
extract_metadata_raises(html) == html.title = "empty"

\* extract_metadata: the title field, and whether line 42 raised
extract_metadata(html) ==
  [raised |-> extract_metadata_raises(html),
   title |-> IF html.title = "text" THEN "Test Page" ELSE ""]

\* scrape_website line 152: js_links[:10]
JsToDownload_noLimit(js_links) == js_links

JsToDownload(js_links) ==
  SubSeq(js_links, 1, IF Len(js_links) < MaxJsDownloads THEN Len(js_links)
                      ELSE MaxJsDownloads)

\* what a call of scrape_website did. kind: "none" (returned None),
\* "manifest" (returned the manifest) or "raise"; fetched: the fetch was
\* reached; metadata_raised: extract_metadata raised; srcs: the script src
\* attributes given to extract_js_links and js_links: the list it returned;
\* attempted: the scripts handed to download_file; js_files, js_count,
\* success: fields of the manifest
ScrapeResult(kind, fetched, metadata_raised, srcs, js_links, attempted, js_files) ==
  [kind |-> kind, fetched |-> fetched, metadata_raised |-> metadata_raised,
   srcs |-> srcs, js_links |-> js_links, attempted |-> attempted,
   js_files |-> js_files, js_count |-> Len(js_files), success |-> (kind = "manifest")]

\* scrape_website lines 136-175, after the fetch succeeded. js_links is the
\* list extract_js_links returned, fails the script URLs for which
\* download_file returns False.
scrape_after_fetch(io, html, download_js, js_links, fails) ==
  IF io = "write_html" THEN ScrapeResult("raise", TRUE, FALSE, <<>>, <<>>, <<>>, <<>>)
  ELSE IF extract_metadata(html).raised
       THEN ScrapeResult("raise", TRUE, TRUE, <<>>, <<>>, <<>>, <<>>)
  ELSE LET srcs == IF download_js THEN html.scripts ELSE <<>>
           found == IF download_js THEN js_links ELSE <<>>
           attempted == JsToDownload(found)
           js_downloaded == SelectSeq(attempted, LAMBDA u : u \notin fails)
       IN ScrapeResult(IF io = "write_manifest" THEN "raise" ELSE "manifest",
                       TRUE, FALSE, srcs, found, attempted, js_downloaded)

\* scrape_website. io names the filesystem call that fails, if any:
\* "makedirs" (line 129, before the fetch), "write_html" (line 137),
\* "write_manifest" (line 172).
scrape_website_ignoresOk(io, f, download_js, js_links, fails) ==
  IF io = "makedirs" THEN ScrapeResult("raise", FALSE, FALSE, <<>>, <<>>, <<>>, <<>>)
  ELSE IF ~f.html.nonempty THEN ScrapeResult("none", TRUE, FALSE, <<>>, <<>>, <<>>, <<>>)
  ELSE scrape_after_fetch(io, f.html, download_js, js_links, fails)

scrape_website(io, f, download_js, js_links, fails) ==
  IF io = "makedirs" THEN ScrapeResult("raise", FALSE, FALSE, <<>>, <<>>, <<>>, <<>>)
  ELSE IF ~f.ok \/ ~f.html.nonempty THEN ScrapeResult("none", TRUE, FALSE, <<>>, <<>>, <<>>, <<>>)
  ELSE scrape_after_fetch(io, f.html, download_js, js_links, fails)

IoOutcomes == {"ok", "makedirs", "write_html", "write_manifest"}

\* the sets of script URLs whose download fails that are explored: none,
\* the first script, every other script, all of them
FailSets(js_links) ==
  { {}, {1}, {u \in Range(js_links) : u % 2 = 0}, Range(js_links) }

\* line 264, second conjunct: `link not in self.queue`
NotQueued_always(link, q) == TRUE

NotQueued(link, q) == link \notin Range(q)

\* the test of crawl's link loop: `link not in self.visited and link not in self.queue`
ShouldEnqueue_noVisitedCheck(link, vis, q) == link \notin Range(q)

ShouldEnqueue(link, vis, q) == link \notin vis /\ NotQueued(link, q)

\* crawl's loop over new_links, in the order the list presents them
RECURSIVE AppendLinks(_, _, _)
AppendLinks(new_links, vis, q) ==
  IF new_links = <<>> THEN q
  ELSE AppendLinks(Tail(new_links), vis,
                   IF ShouldEnqueue(Head(new_links), vis, q)
                   THEN Append(q, Head(new_links)) ELSE q)

(* ------------------------------ analyzer ------------------------------ *)
\* Strings of the analyzer are followed as far as the code looks at them:
\* a scraped text and a prompt summary by their length, a model answer by
\* the list of the pieces it is joined from.
PreviewLen == 1000
DefaultMaxChars == 6000
SeparatorLen == 5
MarkerLen == 24
HttpOk == 200

\* the sites of a sites_index.json: `fields` is the length of the site_info
\* template with domain, url, title, description and js_count filled in
\* (lines 122-129, 131), `text` the length of text_content. A long
\* description alone exceeds DefaultMaxChars.
Sites ==
  { [fields |-> 150, text |-> 0],
    [fields |-> 150, text |-> extract_text_content(5 * MaxTextLen)],
    [fields |-> 7000, text |-> 0] }

DataSets == UNION {[1..n -> Sites] : n \in 0..MaxBatch}

\* lines 122-131: the length of one site_info
site_info(site) == site.fields + Min(site.text, PreviewLen)

\* line 134: the length of "\n---\n".join(summary)
RECURSIVE joined_len(_)
joined_len(d) ==
  IF d = <<>> THEN 0
  ELSE IF Len(d) = 1 THEN site_info(d[1])
  ELSE site_info(Head(d)) + SeparatorLen + joined_len(Tail(d))

\* lines 136-137 without the slice to max_chars
prepare_analysis_data_noSlice(d, max_chars) ==
  LET full_text == joined_len(d)
  IN IF full_text > max_chars THEN full_text + MarkerLen ELSE full_text

\* lines 117-139: the length of the string prepare_analysis_data returns
prepare_analysis_data(d, max_chars) ==
  LET full_text == joined_len(d)
  IN IF full_text > max_chars THEN max_chars + MarkerLen ELSE full_text

\* lines 52-58 with any answer of the server taken for a running Ollama
check_ollama_connection_anyStatus(p) == p.kind = "response"

\* lines 52-58: the probe p is the outcome of requests.get: a response with
\* a status, or an exception
check_ollama_connection(p) == p.kind = "response" /\ p.status = HttpOk

Probes ==
  { [kind |-> "raises", status |-> 0],
    [kind |-> "response", status |-> HttpOk],
    [kind |-> "response", status |-> 503] }

\* the lines response.iter_lines() yields: an empty line; a chunk, a JSON
\* object with or without "response" and "done"; bytes that are no JSON
\* ("garbage"); bytes that are no UTF-8 ("undecodable"); JSON that is no
\* object ("scalar"); and the connection breaking before the next line
\* ("dropped")
Line(kind) == [kind |-> kind, has_response |-> FALSE, response |-> "", done |-> FALSE]
Chunk(text, done) ==
  [kind |-> "chunk", has_response |-> TRUE, response |-> text, done |-> done]
ChunkNoResponse(done) ==
  [kind |-> "chunk", has_response |-> FALSE, response |-> "", done |-> done]

Streams ==
  { <<>>,
    <<Chunk("Hel", FALSE), Chunk("lo", TRUE)>>,
    <<Chunk("Hel", FALSE), Line("empty"), Line("garbage"), Chunk("lo", TRUE),
      Chunk("!", FALSE)>>,
    <<Chunk("Hel", FALSE), ChunkNoResponse(FALSE), Chunk("lo", FALSE)>>,
    <<Chunk("Hel", FALSE), Line("undecodable"), Chunk("lo", TRUE)>>,
    <<Line("scalar"), Chunk("Hel", TRUE)>>,
    <<Chunk("Hel", FALSE), Line("dropped")>>,
    <<Chunk("Error:", FALSE), Chunk(" none", TRUE)>> }

\* the outcomes of requests.post (lines 146-155)
Queries ==
  { [kind |-> "timeout", status |-> 0, lines |-> <<>>],
    [kind |-> "connection", status |-> 0, lines |-> <<>>],
    [kind |-> "response", status |-> 500, lines |-> <<>>] }
    \cup {[kind |-> "response", status |-> HttpOk, lines |-> s] : s \in Streams}

\* line 171: the exception json.loads(line) raises, "none" if it returns
json_loads(line) ==
  CASE line.kind = "garbage" -> "JSONDecodeError"
    [] line.kind = "undecodable" -> "UnicodeDecodeError"
    [] OTHER -> "none"

\* lines 168-180: the loop over the lines; gives the exception that left
\* it ("none" if it ended or reached `break`) and full_response
RECURSIVE iter_lines(_, _)
iter_lines(lines, full_response) ==
  IF lines = <<>> THEN [raised |-> "none", full_response |-> full_response]
  ELSE LET line == Head(lines) IN
    CASE line.kind = "dropped" ->
           [raised |-> "ConnectionError", full_response |-> full_response]
      [] line.kind = "empty" -> iter_lines(Tail(lines), full_response)
      [] json_loads(line) = "JSONDecodeError" -> iter_lines(Tail(lines), full_response)
      [] json_loads(line) # "none" ->
           [raised |-> json_loads(line), full_response |-> full_response]
      [] line.kind = "scalar" ->
           [raised |-> "TypeError", full_response |-> full_response]
      [] OTHER ->
           LET appended == IF line.has_response
                           THEN Append(full_response, line.response)
                           ELSE full_response
           IN IF line.done THEN [raised |-> "none", full_response |-> appended]
              ELSE iter_lines(Tail(lines), appended)

\* the three failure strings of lines 158, 190 and 192: the first two begin
\* with "Error:", the third with "Error communicating"
ErrorStatus == <<"Error:", " Ollama returned status">>
ErrorTimeout == <<"Error:", " Request timed out.">>
ErrorCommunicating == <<"Error communicating with Ollama:">>

\* lines 141-192: the string returned for the outcome q of the request
stream_ollama_response(q) ==
  CASE q.kind = "timeout" -> ErrorTimeout
    [] q.kind = "connection" -> ErrorCommunicating
    [] q.status # HttpOk -> ErrorStatus
    [] OTHER -> LET r == iter_lines(q.lines, <<>>)
                IN IF r.raised # "none" THEN ErrorCommunicating
                   ELSE r.full_response

\* line 237 testing for the word "Error" only
StartsWithError_anyError(s) ==
  s # <<>> /\ s[1] \in {"Error:", "Error communicating with Ollama:"}

\* line 237: result.startswith("Error:")
StartsWithError(s) == s # <<>> /\ s[1] = "Error:"

(* ------------------------------- state -------------------------------- *)
VARIABLES
  command,          \* the cli command being run: "crawl", "scrape", "analyze", "run"
  max_pages,        \* Crawler.max_pages
  analyze,          \* Crawler.analyze
  download_js,      \* the download_js argument of scrape_website
  pc,               \* position of the main thread inside Crawler.crawl
  queue,            \* Crawler.queue (the frontier deque)
  visited,          \* Crawler.visited
  current_url,      \* Crawler.current_url
  scraped_count,    \* Crawler.scraped_count
  html,             \* crawl's local html
  success,          \* crawl's local success
  manifest,         \* crawl's local manifest: "unset", "none" or "manifest"
  analysis_queue,   \* Crawler.analysis_queue: the pages waiting in the Queue
  unfinished_tasks, \* Queue.unfinished_tasks (put increments, task_done decrements)
  analysis_results, \* Crawler.analysis_results; "absent" = no entry
  stop_analysis,    \* Crawler.stop_analysis (Event)
  threads_started,  \* number of analysis threads started
  analyzed_count,   \* Crawler.analyzed_count
  wpc,              \* position of the worker thread inside analysis_worker
  page,             \* the worker's local page (its url), 0 when none
  wfailed,          \* the worker's try block was left by an exception
  hist,             \* observations of the run (see HistInit)
  urls,             \* scrape_multiple's argument
  sm_i,             \* scrape_multiple: index of the next URL
  manifests,        \* scrape_multiple's local manifests
  sm_pc,            \* position inside scrape_multiple
  last_scrape,      \* the latest scrape_website call: its fetch and result
  sys_stdout,       \* sys.stdout: "orig" (the original stream) or "StringIO" (one
                    \* installed by line 187 or 256); "none" once the process ended
  old_stdout,       \* crawl's local old_stdout, "none" outside lines 255-279
  worker_old_stdout, \* analysis_worker's local old_stdout, "none" outside lines 186-204
  an_pc,            \* position inside cli's analysis branch and analyze_with_ollama
  data,             \* the sites loaded from the index file
  data_summary,     \* analyze_with_ollama's local data_summary (its length)
  probe,            \* what the request of check_ollama_connection met
  query,            \* what the request of stream_ollama_response met
  result,           \* analyze_with_ollama's local result
  files             \* the files written to the analysis folder

crawlVars == <<pc, queue, visited, current_url, scraped_count, html, success, manifest>>
sharedVars == <<analysis_queue, unfinished_tasks, analysis_results, stop_analysis,
                threads_started>>
workerVars == <<analyzed_count, wpc, page, wfailed>>
batchVars == <<urls, sm_i, manifests, sm_pc>>
inputVars == <<command, max_pages, analyze, download_js>>
analyzerVars == <<an_pc, data, data_summary, probe, query, result, files>>
\* sys.stdout and the local old_stdout of crawl() and of analysis_worker()
stdoutVars == <<sys_stdout, old_stdout, worker_old_stdout>>

\* the exception leaves crawl() through the finally of line 279 and ends the
\* process (the worker is a daemon thread): no stream and no local is left
ProcessEnds ==
  /\ sys_stdout' = "none"
  /\ old_stdout' = "none"
  /\ worker_old_stdout' = "none"
vars == <<inputVars, crawlVars, sharedVars, workerVars, hist, batchVars, last_scrape,
          analyzerVars, stdoutVars>>

\* what a run has done so far, for stating properties
HistInit ==
  [ skip_taken     |-> FALSE,                 \* line 244 `continue` was executed
    writes         |-> [u \in Urls |-> <<>>],  \* values written to analysis_results[u]
    puts           |-> [u \in Urls |-> 0],     \* analysis_queue.put per url
    gets           |-> [u \in Urls |-> 0],     \* analysis_queue.get per url
    fetch_failed   |-> FALSE,                 \* some fetch reported ok = false
    reachable      |-> {start_url},           \* start_url and every link extracted so far
    backlink       |-> FALSE,                 \* the page whose links were just extracted linked
                                              \* to a visited URL
    fetches        |-> 0,                     \* fetch_with_curl calls for the current URL
    offsite        |-> FALSE,                 \* the page whose links were just extracted had an
                                              \* href to a foreign host
    iter           |-> [count |-> 0, queue |-> <<>>, puts |-> 0],  \* at dequeue
    pops           |-> [u \in Urls |-> 0],     \* queue.popleft per url
    rerun_differs  |-> FALSE,                 \* see CrawlLinks
    interrupted_in |-> "no",                  \* phase in which Ctrl+C arrived
    exit           |-> "none",                \* how Ctrl+C ended the process
    complete_count |-> 0,                     \* the number printed at line 301
    drain_entered  |-> FALSE,                 \* line 295 was reached
    depth          |-> [u \in {start_url} |-> 0],  \* links followed to discover a URL, kept
                                              \* for current_url and the frontier
    scraped_ok     |-> <<>>,                  \* per input URL: scrape_website gave a manifest
    index_written  |-> FALSE,                 \* sites_index.json was saved
    index          |-> <<>>,                  \* the list saved as sites_index.json
    failed         |-> {},                    \* urls whose analysis raised
    site_files     |-> <<>>,                  \* path |-> the url whose record the file holds
    with_manifest  |-> {},                    \* urls for which scrape_website returned a manifest
    analysis_files |-> <<>> ]                 \* file names passed to save_analysis, in order

\* the record kept of a scrape_website call: its result r, the ok of its
\* fetch, the downloads that failed, and whether a second call on the same
\* input and the same download outcomes gave other js_files
ScrapeRecord(r, f, fails, rerun) ==
  [fetched |-> r.fetched, ok |-> f.ok, kind |-> r.kind,
   text_content |-> IF r.kind = "manifest" THEN extract_text_content(f.html.text) ELSE 0,
   metadata_raised |-> r.metadata_raised, srcs |-> r.srcs, js_links |-> r.js_links,
   attempted |-> r.attempted, failed |-> fails \cap Range(r.attempted),
   js_files |-> r.js_files, js_count |-> r.js_count, success |-> r.success,
   rerun_differs |-> (rerun.attempted # r.attempted \/ rerun.js_files # r.js_files)]

NoScrape ==
  [fetched |-> FALSE, ok |-> FALSE, kind |-> "unset", text_content |-> 0,
   metadata_raised |-> FALSE,
   srcs |-> <<>>, js_links |-> <<>>, attempted |-> <<>>, failed |-> {},
   js_files |-> <<>>, js_count |-> 0, success |-> FALSE, rerun_differs |-> FALSE]

TotalPuts == LET RECURSIVE Sum(_)
                 Sum(S) == IF S = {} THEN 0
                           ELSE LET u == CHOOSE x \in S : TRUE
                                IN hist.puts[u] + Sum(S \ {u})
             IN Sum(Urls)

NoRequest == [kind |-> "unset", status |-> 0, lines |-> <<>>]
NoProbe == [kind |-> "unset", status |-> 0]

\* the command line parsed (cli.py line 55): the arguments of the command
Init ==
  /\ command \in {"crawl", "scrape", "analyze", "run"}
  /\ max_pages \in IF command = "crawl" THEN 0..MaxPagesBound ELSE {0}
  /\ analyze \in IF command = "crawl" THEN BOOLEAN ELSE {FALSE}
  /\ download_js \in IF command \in {"scrape", "run"} THEN BOOLEAN ELSE {FALSE}
  /\ urls \in IF command \in {"scrape", "run"}
              THEN UNION {[1..n -> Urls] : n \in 0..MaxBatch} ELSE {<<>>}
  /\ pc = IF command = "crawl" THEN "cli" ELSE "unused"
  /\ an_pc = IF command = "analyze" THEN "cli" ELSE "unused"
  /\ data = <<>>
  /\ data_summary = 0
  /\ probe = NoProbe
  /\ query = NoRequest
  /\ result = <<>>
  /\ files = {}
  /\ queue = <<start_url>>
  /\ visited = {}
  /\ current_url = 0
  /\ scraped_count = 0
  /\ html = EmptyHtml
  /\ success = FALSE
  /\ manifest = "unset"
  /\ analysis_queue = <<>>
  /\ unfinished_tasks = 0
  /\ analysis_results = [u \in Urls |-> "absent"]
  /\ stop_analysis = FALSE
  /\ threads_started = 0
  /\ analyzed_count = 0
  /\ wpc = "unstarted"
  /\ page = 0
  /\ wfailed = FALSE
  /\ hist = HistInit
  /\ sm_i = 1
  /\ manifests = <<>>
  /\ sm_pc = IF command \in {"scrape", "run"} THEN "cli" ELSE "unused"
  /\ last_scrape = NoScrape
  /\ sys_stdout = "orig"
  /\ old_stdout = "none"
  /\ worker_old_stdout = "none"

(* --------------------- Crawler.crawl (main thread) -------------------- *)
\* line 240: `while self.queue and self.scraped_count < self.max_pages`
LoopTest_offByOne == queue # <<>> /\ scraped_count <= max_pages

LoopTest == queue # <<>> /\ scraped_count < max_pages

Running ==
  {"cli", "start", "loop", "fetch", "links", "scrape", "mark_queued", "put", "sleep"}
Draining == {"harvest", "join", "stop", "thread_join", "report"}

\* how the process was started: the console script of setup.py calls
\* cli() directly; `python -m protor.cli` runs it under the handler of
\* cli.py lines 217-222
Entries == {"console_script", "__main__"}

\* where Ctrl+C ends: inside one of cli's try blocks the handler prints and
\* calls sys.exit(0); elsewhere only the handler of line 220 is left
InterruptExit(in_try, entry) ==
  IF in_try \/ entry = "__main__" THEN "exit 0" ELSE "traceback"

\* cli.py lines 197-207: the crawl branch builds the Crawler
CliCrawl ==
  /\ pc = "cli"
  /\ pc' = "start"
  /\ UNCHANGED <<inputVars, stdoutVars, analyzerVars, queue, visited, current_url, scraped_count,
                 html, success, manifest, sharedVars, workerVars, hist, batchVars,
                 last_scrape>>

\* lines 234-237: start the worker thread when analysis is enabled
CrawlStart ==
  /\ pc = "start"
  /\ pc' = "loop"
  /\ IF analyze
     THEN /\ threads_started' = threads_started + 1
          /\ wpc' = "check"
     ELSE UNCHANGED <<threads_started, wpc>>
  /\ UNCHANGED <<inputVars, stdoutVars, analyzerVars, queue, visited, current_url, scraped_count, html, success,
                 manifest, analysis_queue, unfinished_tasks, analysis_results,
                 stop_analysis, analyzed_count, page, wfailed, hist, batchVars,
                 last_scrape>>

\* lines 240-251 with pop() instead of popleft(): the newest URL is taken
CrawlDequeue_popRight ==
  /\ pc = "loop"
  /\ LoopTest
  /\ current_url' = queue[Len(queue)]
  /\ queue' = SubSeq(queue, 1, Len(queue) - 1)
  /\ IF current_url' \in visited
     THEN /\ pc' = "loop"
          /\ visited' = visited
          /\ hist' = [hist EXCEPT !.skip_taken = TRUE, !.pops[current_url'] = @ + 1]
     ELSE /\ pc' = "fetch"
          /\ visited' = visited \cup {current_url'}
          /\ hist' = [hist EXCEPT !.iter = [count |-> scraped_count,
                                            queue |-> queue',
                                            puts |-> TotalPuts],
                                  !.pops[current_url'] = @ + 1,
                                  !.rerun_differs = FALSE,
                                  !.depth = [u \in Range(queue) |-> @[u]]]
  /\ IF Head(queue) \in visited
     THEN UNCHANGED <<sys_stdout, old_stdout>>
     ELSE /\ old_stdout' = sys_stdout
          /\ sys_stdout' = "StringIO"
  /\ UNCHANGED <<inputVars, worker_old_stdout, analyzerVars, scraped_count, html, success, manifest, sharedVars,
                 workerVars, batchVars, last_scrape>>

\* lines 240-256: loop test, popleft, skip if visited, mark visited; then
\* old_stdout = sys.stdout and sys.stdout = StringIO()
CrawlDequeue ==
  /\ pc = "loop"
  /\ LoopTest
  /\ current_url' = Head(queue)
  /\ queue' = Tail(queue)
  /\ IF Head(queue) \in visited
     THEN /\ pc' = "loop"
          /\ visited' = visited
          /\ hist' = [hist EXCEPT !.skip_taken = TRUE, !.pops[Head(queue)] = @ + 1]
     ELSE /\ pc' = "fetch"
          /\ visited' = visited \cup {Head(queue)}
          /\ hist' = [hist EXCEPT !.iter = [count |-> scraped_count,
                                            queue |-> Tail(queue),
                                            puts |-> TotalPuts],
                                  !.pops[Head(queue)] = @ + 1,
                                  !.rerun_differs = FALSE,
                                  !.depth = [u \in Range(queue) |-> @[u]]]
  /\ IF Head(queue) \in visited
     THEN UNCHANGED <<sys_stdout, old_stdout>>
     ELSE /\ old_stdout' = sys_stdout
          /\ sys_stdout' = "StringIO"
  /\ UNCHANGED <<inputVars, worker_old_stdout, analyzerVars, scraped_count, html, success, manifest, sharedVars,
                 workerVars, batchVars, last_scrape>>

\* line 240: the loop test fails
CrawlLoopExit_always ==
  /\ pc = "loop"
  /\ pc' = "harvest"
  /\ UNCHANGED <<inputVars, stdoutVars, analyzerVars, queue, visited, current_url, scraped_count, html, success,
                 manifest, sharedVars, workerVars, hist, batchVars, last_scrape>>

CrawlLoopExit ==
  /\ pc = "loop"
  /\ ~LoopTest
  /\ pc' = "harvest"
  /\ UNCHANGED <<inputVars, stdoutVars, analyzerVars, queue, visited, current_url, scraped_count, html, success,
                 manifest, sharedVars, workerVars, hist, batchVars, last_scrape>>

\* lines 259-261 with the failure branch going back to the loop test at once
CrawlFetch_noPauseOnFailure ==
  /\ pc = "fetch"
  /\ \E f \in FetchResults(LinkPages) :
       /\ html' = f.html
       /\ success' = f.ok
       /\ pc' = IF f.ok THEN "links" ELSE "loop"
       /\ hist' = [hist EXCEPT !.fetch_failed = @ \/ ~f.ok]
  /\ IF pc' = "loop"
     THEN /\ sys_stdout' = old_stdout
          /\ old_stdout' = "none"
     ELSE UNCHANGED <<sys_stdout, old_stdout>>
  /\ UNCHANGED <<inputVars, worker_old_stdout, analyzerVars, queue, visited, current_url, scraped_count, manifest,
                 sharedVars, workerVars, batchVars, last_scrape>>

\* lines 259-261: html, success = fetch_with_curl(current_url)
CrawlFetch ==
  /\ pc = "fetch"
  /\ \E f \in FetchResults(LinkPages) :
       /\ html' = f.html
       /\ success' = f.ok
       /\ pc' = IF f.ok THEN "links" ELSE "sleep"
       /\ hist' = [hist EXCEPT !.fetch_failed = @ \/ ~f.ok, !.fetches = @ + 1]
  /\ UNCHANGED <<inputVars, stdoutVars, analyzerVars, queue, visited, current_url, scraped_count, manifest,
                 sharedVars, workerVars, batchVars, last_scrape>>

\* lines 262-265: extract the links and append the new ones. rerun is the
\* list a second run of extract_links on the same markup returns when its
\* set iterates the other way round; hist.rerun_differs tells whether it
\* leads to another frontier. After this the
\* html is only copied into page_data (line 273), whose content the model
\* does not follow, so the local is cleared here.
CrawlLinks ==
  /\ pc = "links"
  /\ \E new_links \in extract_links(html, current_url) :
       LET rerun == Reverse(new_links) IN
         /\ queue' = AppendLinks(new_links, visited, queue)
         /\ hist' = [hist EXCEPT
                       !.reachable = @ \cup Range(new_links),
                       !.backlink = Range(new_links) \cap visited # {},
                       !.offsite = \E h \in html.hrefs : Netloc(h) # Netloc(current_url),
                       !.depth = [u \in {current_url} \cup Range(queue') |->
                                    IF u \in DOMAIN @ THEN @[u]
                                    ELSE @[current_url] + 1],
                       !.rerun_differs = AppendLinks(rerun, visited, queue) # queue']
  /\ html' = EmptyHtml
  /\ pc' = "scrape"
  /\ UNCHANGED <<inputVars, stdoutVars, analyzerVars, visited, current_url, scraped_count, success,
                 manifest, sharedVars, workerVars, batchVars, last_scrape>>

\* scraper.py lines 127-128: os.path.join(output_dir, safe_filename(netloc))
site_dir(url) == Netloc(url)

\* scraper.py line 137: os.path.join(site_dir, "index.html")
html_path(url) == <<site_dir(url), "index.html">>

\* scraper.py line 172: os.path.join(site_dir, "manifest.json")
manifest_path(url) == <<site_dir(url), "manifest.json">>

\* open(path, "w") and write: the file at path now holds the record of url
WriteFile(fs, path, url) ==
  [p \in DOMAIN fs \cup {path} |-> IF p = path THEN url ELSE fs[p]]

\* the files after scrape_website(url) with result r: index.html is written
\* at lines 137-138 once the fetch gave markup, manifest.json at line 172
\* when the manifest is returned
FilesAfterScrape(fs, url, io, r) ==
  LET with_html == IF r.fetched /\ r.kind # "none" /\ io # "write_html"
                   THEN WriteFile(fs, html_path(url), url) ELSE fs
  IN IF r.kind = "manifest" THEN WriteFile(with_html, manifest_path(url), url)
     ELSE with_html

\* lines 267-277 with `if self.analyze:` as the test of line 270
CrawlScrape_submitsAlways ==
  /\ pc = "scrape"
  /\ \E io \in IoOutcomes, f \in FetchResults(ScrapePages) :
       LET r == scrape_website(io, f, FALSE, <<>>, {}) IN
         /\ last_scrape' = ScrapeRecord(r, f, {}, r)
         /\ hist' = [hist EXCEPT !.fetch_failed = @ \/ (r.fetched /\ ~f.ok),
                                 !.offsite = FALSE,
                                 !.backlink = FALSE,
                                 !.fetches = IF r.fetched THEN @ + 1 ELSE @,
                                 !.site_files = FilesAfterScrape(@, current_url, io, r),
                                 !.with_manifest = IF r.kind = "manifest"
                                                   THEN @ \cup {current_url} ELSE @]
         /\ IF r.kind = "raise"
            THEN /\ pc' = "crashed"
                 /\ UNCHANGED <<manifest, scraped_count>>
            ELSE /\ manifest' = r.kind
                 /\ scraped_count' = scraped_count + 1
                 /\ pc' = IF analyze
                          THEN "mark_queued" ELSE "sleep"
  /\ IF pc' = "crashed"
     THEN ProcessEnds
     ELSE UNCHANGED stdoutVars
  /\ UNCHANGED <<inputVars, analyzerVars, queue, visited, current_url, html, success, sharedVars,
                 workerVars, batchVars>>

\* lines 267-270: manifest = scrape_website(..., download_js=False);
\* scraped_count += 1; then the test `if self.analyze and manifest`.
\* An exception of scrape_website passes the try/finally and leaves crawl().
CrawlScrape ==
  /\ pc = "scrape"
  /\ \E io \in IoOutcomes, f \in FetchResults(ScrapePages) :
       LET r == scrape_website(io, f, FALSE, <<>>, {}) IN
         /\ last_scrape' = ScrapeRecord(r, f, {}, r)
         /\ hist' = [hist EXCEPT !.fetch_failed = @ \/ (r.fetched /\ ~f.ok),
                                 !.offsite = FALSE,
                                 !.backlink = FALSE,
                                 !.fetches = IF r.fetched THEN @ + 1 ELSE @,
                                 !.site_files = FilesAfterScrape(@, current_url, io, r),
                                 !.with_manifest = IF r.kind = "manifest"
                                                   THEN @ \cup {current_url} ELSE @]
         /\ IF r.kind = "raise"
            THEN /\ pc' = "crashed"
                 /\ UNCHANGED <<manifest, scraped_count>>
            ELSE /\ manifest' = r.kind
                 /\ scraped_count' = scraped_count + 1
                 /\ pc' = IF analyze /\ r.kind = "manifest"
                          THEN "mark_queued" ELSE "sleep"
  /\ IF pc' = "crashed"
     THEN ProcessEnds
     ELSE UNCHANGED stdoutVars
  /\ UNCHANGED <<inputVars, analyzerVars, queue, visited, current_url, html, success, sharedVars,
                 workerVars, batchVars>>

\* lines 271-276: page_data is built from the url, the html of line 259 and
\* the manifest (the text scrape_website extracted is not used further);
\* analysis_results[current_url] = 'queued'
CrawlMarkQueued ==
  /\ pc = "mark_queued"
  /\ analysis_results' = [analysis_results EXCEPT ![current_url] = "queued"]
  /\ hist' = [hist EXCEPT !.writes[current_url] = Append(@, "queued")]
  /\ last_scrape' = [last_scrape EXCEPT !.text_content = 0]
  /\ pc' = "put"
  /\ UNCHANGED <<inputVars, stdoutVars, analyzerVars, queue, visited, current_url, scraped_count, html, success,
                 manifest, analysis_queue, unfinished_tasks, stop_analysis,
                 threads_started, workerVars, batchVars>>

\* line 277 on a Queue(maxsize=1): put waits until the worker has taken the
\* page before
CrawlPut_blocks ==
  /\ pc = "put"
  /\ analysis_queue = <<>>
  /\ analysis_queue' = Append(analysis_queue, current_url)
  /\ unfinished_tasks' = unfinished_tasks + 1
  /\ hist' = [hist EXCEPT !.puts[current_url] = @ + 1]
  /\ pc' = "sleep"
  /\ UNCHANGED <<inputVars, stdoutVars, analyzerVars, queue, visited, current_url, scraped_count, html, success,
                 manifest, analysis_results, stop_analysis, threads_started,
                 workerVars, batchVars, last_scrape>>

\* line 277: analysis_queue.put(page_data)
CrawlPut ==
  /\ pc = "put"
  /\ analysis_queue' = Append(analysis_queue, current_url)
  /\ unfinished_tasks' = unfinished_tasks + 1
  /\ hist' = [hist EXCEPT !.puts[current_url] = @ + 1]
  /\ pc' = "sleep"
  /\ UNCHANGED <<inputVars, stdoutVars, analyzerVars, queue, visited, current_url, scraped_count, html, success,
                 manifest, analysis_results, stop_analysis, threads_started,
                 workerVars, batchVars, last_scrape>>

\* lines 278-288: restore stdout, refresh the display, time.sleep(0.5).
\* The locals of the finished iteration are dead and are cleared, and so
\* are the observations that concern one iteration (the page text among
\* them).
CrawlSleep ==
  /\ pc = "sleep"
  /\ pc' = "loop"
  /\ html' = EmptyHtml
  /\ success' = FALSE
  /\ manifest' = "unset"
  /\ hist' = [hist EXCEPT !.backlink = FALSE, !.rerun_differs = FALSE,
                          !.iter = HistInit.iter, !.fetches = 0]
  /\ last_scrape' = [last_scrape EXCEPT !.text_content = 0]
  /\ sys_stdout' = old_stdout
  /\ old_stdout' = "none"
  /\ UNCHANGED <<inputVars, worker_old_stdout, analyzerVars, queue, visited, current_url, scraped_count, sharedVars,
                 workerVars, batchVars>>

\* lines 290-294: report the harvest; enter the drain phase if analysing
CrawlHarvest_skipsJoin ==
  /\ pc = "harvest"
  /\ IF analyze
     THEN /\ pc' = "stop"
          /\ hist' = [hist EXCEPT !.drain_entered = TRUE]
     ELSE /\ pc' = "done"
          /\ hist' = hist
  /\ UNCHANGED <<inputVars, stdoutVars, analyzerVars, queue, visited, current_url, scraped_count, html, success,
                 manifest, sharedVars, workerVars, batchVars, last_scrape>>

CrawlHarvest ==
  /\ pc = "harvest"
  /\ IF analyze
     THEN /\ pc' = "join"
          /\ hist' = [hist EXCEPT !.drain_entered = TRUE]
     ELSE /\ pc' = "done"
          /\ hist' = hist
  /\ UNCHANGED <<inputVars, stdoutVars, analyzerVars, queue, visited, current_url, scraped_count, html, success,
                 manifest, sharedVars, workerVars, batchVars, last_scrape>>

\* line 295: analysis_queue.join() returns once no task is unfinished
CrawlJoin_noWait ==
  /\ pc = "join"
  /\ pc' = "stop"
  /\ UNCHANGED <<inputVars, stdoutVars, analyzerVars, queue, visited, current_url, scraped_count, html, success,
                 manifest, sharedVars, workerVars, hist, batchVars, last_scrape>>

CrawlJoin ==
  /\ pc = "join"
  /\ unfinished_tasks = 0
  /\ pc' = "stop"
  /\ UNCHANGED <<inputVars, stdoutVars, analyzerVars, queue, visited, current_url, scraped_count, html, success,
                 manifest, sharedVars, workerVars, hist, batchVars, last_scrape>>

\* line 296: stop_analysis.set()
CrawlStop ==
  /\ pc = "stop"
  /\ stop_analysis' = TRUE
  /\ pc' = "thread_join"
  /\ UNCHANGED <<inputVars, stdoutVars, analyzerVars, queue, visited, current_url, scraped_count, html, success,
                 manifest, analysis_queue, unfinished_tasks, analysis_results,
                 threads_started, workerVars, hist, batchVars, last_scrape>>

\* lines 297-298: analysis_thread.join(timeout=2) returns when the worker has
\* exited or when the two seconds have passed
CrawlThreadJoin ==
  /\ pc = "thread_join"
  /\ pc' = "report"
  /\ UNCHANGED <<inputVars, stdoutVars, analyzerVars, queue, visited, current_url, scraped_count, html, success,
                 manifest, sharedVars, workerVars, hist, batchVars, last_scrape>>

\* line 300: sum(1 for s in analysis_results.values() if s == 'complete')
CompleteCount == Cardinality({u \in Urls : analysis_results[u] = "complete"})

\* lines 300-301: count the 'complete' entries and print them; crawl() returns
CrawlReport ==
  /\ pc = "report"
  /\ pc' = "done"
  /\ hist' = [hist EXCEPT !.complete_count = CompleteCount]
  /\ UNCHANGED <<inputVars, stdoutVars, analyzerVars, queue, visited, current_url, scraped_count, html, success,
                 manifest, sharedVars, workerVars, batchVars, last_scrape>>

\* lines 256-279: the main thread is between its redirect and its restore
InMainSection == pc \in {"fetch", "links", "scrape", "mark_queued", "put", "sleep"}

\* KeyboardInterrupt in the main thread: crawl() has no handler, so it
\* propagates to cli (cli.py lines 208-212), which prints and calls
\* sys.exit(0). The locals of crawl() are gone with its frame. While the
\* Crawler is being built (lines 198-207) cli's try is not yet entered.
Interrupt ==
  /\ pc \in Running \cup Draining
  /\ pc' = "exited"
  /\ html' = EmptyHtml
  /\ success' = FALSE
  /\ manifest' = "unset"
  /\ \E entry \in Entries :
       hist' = [hist EXCEPT !.interrupted_in =
                              IF pc = "cli" THEN "cli"
                              ELSE IF pc \in Running THEN "running" ELSE "draining",
                            !.exit = InterruptExit(pc # "cli", entry)]
  /\ ProcessEnds
  /\ UNCHANGED <<inputVars, analyzerVars, queue, visited, current_url, scraped_count,
                 sharedVars, workerVars, batchVars, last_scrape>>

CrawlNext ==
  \/ CliCrawl \/ CrawlStart \/ CrawlDequeue \/ CrawlLoopExit \/ CrawlFetch \/ CrawlLinks
  \/ CrawlScrape \/ CrawlMarkQueued \/ CrawlPut \/ CrawlSleep \/ CrawlHarvest
  \/ CrawlJoin \/ CrawlStop \/ CrawlThreadJoin \/ CrawlReport

(* ------------------ Crawler.analysis_worker (thread) ------------------ *)
\* the worker is a daemon thread: it runs only while the process lives
ProcessAlive == pc \notin {"exited", "crashed"}

\* line 180: while not self.stop_analysis.is_set()
WorkerCheck ==
  /\ ProcessAlive
  /\ wpc = "check"
  /\ wpc' = IF stop_analysis THEN "exited" ELSE "get"
  /\ UNCHANGED <<inputVars, stdoutVars, analyzerVars, crawlVars, sharedVars, analyzed_count, page, wfailed, hist,
                 batchVars, last_scrape>>

\* line 182: analysis_queue.get(timeout=0.5) returns a page
WorkerGet_peek ==
  /\ ProcessAlive
  /\ wpc = "get"
  /\ analysis_queue # <<>>
  /\ page' = Head(analysis_queue)
  /\ analysis_queue' = analysis_queue
  /\ hist' = [hist EXCEPT !.gets[Head(analysis_queue)] = @ + 1]
  /\ wpc' = "mark"
  /\ UNCHANGED <<inputVars, stdoutVars, analyzerVars, crawlVars, unfinished_tasks, analysis_results,
                 stop_analysis, threads_started, analyzed_count, wfailed, batchVars,
                 last_scrape>>

WorkerGet ==
  /\ ProcessAlive
  /\ wpc = "get"
  /\ analysis_queue # <<>>
  /\ page' = Head(analysis_queue)
  /\ analysis_queue' = Tail(analysis_queue)
  /\ hist' = [hist EXCEPT !.gets[Head(analysis_queue)] = @ + 1]
  /\ wpc' = "mark"
  /\ UNCHANGED <<inputVars, stdoutVars, analyzerVars, crawlVars, unfinished_tasks, analysis_results,
                 stop_analysis, threads_started, analyzed_count, wfailed, batchVars,
                 last_scrape>>

\* lines 182, 207-209: the get times out (queue.Empty), `continue`
WorkerGetTimeout ==
  /\ ProcessAlive
  /\ wpc = "get"
  /\ analysis_queue = <<>>
  /\ wpc' = "check"
  /\ UNCHANGED <<inputVars, stdoutVars, analyzerVars, crawlVars, sharedVars, analyzed_count, page, wfailed, hist,
                 batchVars, last_scrape>>

\* lines 184-187: analysis_results[page['url']] = 'analyzing';
\* old_stdout = sys.stdout and sys.stdout = StringIO()
WorkerMark ==
  /\ ProcessAlive
  /\ wpc = "mark"
  /\ analysis_results' = [analysis_results EXCEPT ![page] = "analyzing"]
  /\ hist' = [hist EXCEPT !.writes[page] = Append(@, "analyzing")]
  /\ wfailed' = FALSE
  /\ wpc' = "analyze"
  /\ worker_old_stdout' = sys_stdout
  /\ sys_stdout' = "StringIO"
  /\ UNCHANGED <<inputVars, old_stdout, analyzerVars, crawlVars, analysis_queue, unfinished_tasks, stop_analysis,
                 threads_started, analyzed_count, page, batchVars, last_scrape>>

\* lines 190-200: analyze_page and save_analysis return; analyzed_count += 1
WorkerAnalyzeSaved_countsScrape ==
  /\ ProcessAlive
  /\ wpc = "analyze"
  /\ analyzed_count' = analyzed_count + 1
  /\ scraped_count' = scraped_count - 1
  /\ wpc' = "complete"
  /\ UNCHANGED <<inputVars, stdoutVars, analyzerVars, pc, queue, visited, current_url, html, success, manifest,
                 sharedVars, page, wfailed, hist, batchVars, last_scrape>>

\* lines 196-197: f"{domain}_{self.analyzed_count}.md", domain being
\* safe_filename of the page's netloc
analysis_filename(url, count) == <<Netloc(url), count>>

\* lines 190-199 without line 200: the count is never incremented
WorkerAnalyzeSaved_noIncrement ==
  /\ ProcessAlive
  /\ wpc = "analyze"
  /\ hist' = [hist EXCEPT !.analysis_files =
                              Append(@, analysis_filename(page, analyzed_count))]
  /\ wpc' = "complete"
  /\ UNCHANGED <<inputVars, stdoutVars, analyzerVars, crawlVars, sharedVars, analyzed_count, page,
                 wfailed, batchVars, last_scrape>>

WorkerAnalyzeSaved ==
  /\ ProcessAlive
  /\ wpc = "analyze"
  /\ hist' = [hist EXCEPT !.analysis_files =
                              Append(@, analysis_filename(page, analyzed_count))]
  /\ analyzed_count' = analyzed_count + 1
  /\ wpc' = "complete"
  /\ UNCHANGED <<inputVars, stdoutVars, analyzerVars, crawlVars, sharedVars, page, wfailed, batchVars,
                 last_scrape>>

\* lines 190-199: analyze_page or save_analysis raises; control goes to finally
WorkerAnalyzeRaised_requeues ==
  /\ ProcessAlive
  /\ wpc = "analyze"
  /\ wfailed' = TRUE
  /\ analysis_results' = [analysis_results EXCEPT ![page] = "queued"]
  /\ hist' = [hist EXCEPT !.failed = @ \cup {page}, !.writes[page] = Append(@, "queued")]
  /\ wpc' = "task_done"
  /\ UNCHANGED <<inputVars, stdoutVars, analyzerVars, crawlVars, analysis_queue, unfinished_tasks, stop_analysis,
                 threads_started, analyzed_count, page, batchVars, last_scrape>>

\* lines 190-200 with the count taken before the save: a failed save counts
WorkerAnalyzeRaised_counts ==
  /\ ProcessAlive
  /\ wpc = "analyze"
  /\ wfailed' = TRUE
  /\ analyzed_count' = analyzed_count + 1
  /\ hist' = [hist EXCEPT !.failed = @ \cup {page}]
  /\ wpc' = "task_done"
  /\ UNCHANGED <<inputVars, stdoutVars, analyzerVars, crawlVars, sharedVars, page, batchVars,
                 last_scrape>>

WorkerAnalyzeRaised ==
  /\ ProcessAlive
  /\ wpc = "analyze"
  /\ wfailed' = TRUE
  /\ hist' = [hist EXCEPT !.failed = @ \cup {page}]
  /\ wpc' = "task_done"
  /\ UNCHANGED <<inputVars, stdoutVars, analyzerVars, crawlVars, sharedVars, analyzed_count, page, batchVars,
                 last_scrape>>

\* line 190: the model call never returns
WorkerAnalyzeHangs ==
  /\ ProcessAlive
  /\ wpc = "analyze"
  /\ wpc' = "hung"
  /\ UNCHANGED <<inputVars, stdoutVars, analyzerVars, crawlVars, sharedVars, analyzed_count, page, wfailed, hist,
                 batchVars, last_scrape>>

\* line 202: analysis_results[page['url']] = 'complete'
WorkerComplete ==
  /\ ProcessAlive
  /\ wpc = "complete"
  /\ analysis_results' = [analysis_results EXCEPT ![page] = "complete"]
  /\ hist' = [hist EXCEPT !.writes[page] = Append(@, "complete")]
  /\ wpc' = "task_done"
  /\ UNCHANGED <<inputVars, stdoutVars, analyzerVars, crawlVars, analysis_queue, unfinished_tasks, stop_analysis,
                 threads_started, analyzed_count, page, wfailed, batchVars, last_scrape>>

\* lines 203-209: finally: task_done(); a raised error is swallowed by the
\* bare except and the loop continues
WorkerTaskDone_noExcept ==
  /\ ProcessAlive
  /\ wpc = "task_done"
  /\ unfinished_tasks' = unfinished_tasks - 1
  /\ wpc' = IF wfailed THEN "exited" ELSE "check"
  /\ page' = 0
  /\ sys_stdout' = worker_old_stdout
  /\ worker_old_stdout' = "none"
  /\ UNCHANGED <<inputVars, old_stdout, analyzerVars, crawlVars, analysis_queue, analysis_results, stop_analysis,
                 threads_started, analyzed_count, wfailed, hist, batchVars, last_scrape>>

WorkerTaskDone ==
  /\ ProcessAlive
  /\ wpc = "task_done"
  /\ unfinished_tasks' = unfinished_tasks - 1
  /\ wpc' = "check"
  /\ page' = 0
  /\ sys_stdout' = worker_old_stdout
  /\ worker_old_stdout' = "none"
  /\ UNCHANGED <<inputVars, old_stdout, analyzerVars, crawlVars, analysis_queue, analysis_results, stop_analysis,
                 threads_started, analyzed_count, wfailed, hist, batchVars, last_scrape>>

\* lines 187-204: the worker is between its redirect and its restore
InWorkerSection == wpc \in {"analyze", "complete", "task_done", "hung"}

WorkerNext ==
  \/ WorkerCheck \/ WorkerGet \/ WorkerGetTimeout \/ WorkerMark \/ WorkerAnalyzeSaved
  \/ WorkerAnalyzeRaised \/ WorkerAnalyzeHangs \/ WorkerComplete \/ WorkerTaskDone

(* --------------------------- scrape_multiple -------------------------- *)
\* lines 194-195 without the test of line 194
AppendManifest_always(ms, r, url) == Append(ms, url)

\* lines 194-195: `if manifest: manifests.append(manifest)`; a manifest is
\* represented by the URL it was made for
AppendManifest(ms, r, url) ==
  IF r.kind = "manifest" THEN Append(ms, url) ELSE ms

\* cli.py lines 57-58 (scrape) and 125-139 (run): up to the try that calls
\* scrape_multiple
CliScrape ==
  /\ sm_pc = "cli"
  /\ sm_pc' = "loop"
  /\ UNCHANGED <<inputVars, stdoutVars, analyzerVars, crawlVars, sharedVars, workerVars, hist, urls,
                 sm_i, manifests, last_scrape>>

\* lines 192-197: one pass of the loop over urls. An exception of
\* scrape_website is not caught and leaves scrape_multiple.
BatchScrape ==
  /\ sm_pc = "loop"
  /\ sm_i <= Len(urls)
  /\ \E io \in IoOutcomes, f \in FetchResults(ScrapePages) :
       \E js_links \in extract_js_links(f.html) :
         \E fails \in FailSets(js_links) :
       LET r == scrape_website(io, f, download_js, js_links, fails)
           rerun == scrape_website(io, f, download_js, Reverse(js_links), fails) IN
         /\ last_scrape' = ScrapeRecord(r, f, fails, rerun)
         /\ IF r.kind = "raise"
            THEN /\ sm_pc' = "crashed"
                 /\ UNCHANGED <<sm_i, manifests>>
            ELSE /\ sm_pc' = "loop"
                 /\ sm_i' = sm_i + 1
                 /\ manifests' = AppendManifest(manifests, r, urls[sm_i])
         /\ hist' = [hist EXCEPT !.scraped_ok = Append(@, r.kind = "manifest")]
  /\ UNCHANGED <<inputVars, stdoutVars, analyzerVars, crawlVars, sharedVars, workerVars, urls>>

\* lines 199-213: write the index and return
BatchIndex ==
  /\ sm_pc = "loop"
  /\ sm_i > Len(urls)
  /\ sm_pc' = "done"
  /\ hist' = [hist EXCEPT !.index_written = TRUE, !.index = manifests]
  /\ UNCHANGED <<inputVars, stdoutVars, analyzerVars, crawlVars, sharedVars, workerVars, urls, sm_i,
                 manifests, last_scrape>>

\* KeyboardInterrupt while cli runs the scrape or run command: inside
\* scrape_multiple the handlers of cli.py lines 67-69 and 147-149 apply;
\* before it, and in run between the two phases (lines 151-164), none of
\* cli's own handlers does.
BatchInterrupt ==
  /\ \/ sm_pc \in {"cli", "loop"}
     \/ sm_pc = "done" /\ command = "run" /\ an_pc = "unused"
  /\ sm_pc' = "exited"
  /\ \E entry \in Entries :
       hist' = [hist EXCEPT !.exit = InterruptExit(sm_pc = "loop", entry)]
  /\ UNCHANGED <<inputVars, stdoutVars, analyzerVars, crawlVars, sharedVars, workerVars, urls, sm_i,
                 manifests, last_scrape>>

BatchNext == CliScrape \/ BatchScrape \/ BatchIndex

(* -------------------- cli: analyze, run; analyzer --------------------- *)
\* cli.py lines 71-107: the analyze branch up to its try: return if the
\* index file is missing (line 84), else load it
CliAnalyze ==
  /\ an_pc = "cli"
  /\ \E exists \in BOOLEAN :
       IF exists
       THEN /\ an_pc' = "probe"
            /\ data' \in DataSets
       ELSE /\ an_pc' = "done"
            /\ data' = data
  /\ UNCHANGED <<inputVars, stdoutVars, crawlVars, sharedVars, workerVars, hist, batchVars,
                 last_scrape, data_summary, probe, query, result, files>>

\* cli.py lines 151-164: run's second phase loads the index scrape_multiple
\* wrote, one site per manifest. scrape_multiple has returned: its locals
\* and the observations of its run are dropped.
CliRunPhase2 ==
  /\ command = "run" /\ sm_pc = "done" /\ an_pc = "unused"
  /\ data' \in {d \in DataSets : Len(d) = Len(manifests)}
  /\ an_pc' = "probe"
  /\ sm_pc' = "returned"
  /\ urls' = <<>>
  /\ sm_i' = 1
  /\ manifests' = <<>>
  /\ last_scrape' = NoScrape
  /\ hist' = [hist EXCEPT !.scraped_ok = <<>>, !.index = <<>>]
  /\ UNCHANGED <<inputVars, stdoutVars, crawlVars, sharedVars, workerVars, data_summary, probe,
                 query, result, files>>

\* analyzer.py lines 197-210: probe the server; return if it does not answer
AnalyzeProbe ==
  /\ an_pc = "probe"
  /\ \E p \in Probes :
       /\ probe' = p
       /\ an_pc' = IF check_ollama_connection(p) THEN "prepare" ELSE "returned"
  /\ UNCHANGED <<inputVars, stdoutVars, crawlVars, sharedVars, workerVars, hist, batchVars,
                 last_scrape, data, data_summary, query, result, files>>

\* lines 224-233: summarise the data and build the prompt
AnalyzePrepare ==
  /\ an_pc = "prepare"
  /\ data_summary' = prepare_analysis_data(data, DefaultMaxChars)
  /\ an_pc' = "query"
  /\ UNCHANGED <<inputVars, stdoutVars, crawlVars, sharedVars, workerVars, hist, batchVars,
                 last_scrape, data, probe, query, result, files>>

\* lines 235-247: query the model; return if the result is a failure
AnalyzeQuery ==
  /\ an_pc = "query"
  /\ \E q \in Queries :
       /\ query' = q
       /\ result' = stream_ollama_response(q)
       /\ an_pc' = IF StartsWithError(stream_ollama_response(q))
                   THEN "returned" ELSE "write_json"
  /\ UNCHANGED <<inputVars, stdoutVars, crawlVars, sharedVars, workerVars, hist, batchVars,
                 last_scrape, data, data_summary, probe, files>>

\* lines 249-258: save analysis.json
AnalyzeWriteJson ==
  /\ an_pc = "write_json"
  /\ files' = files \cup {"analysis.json"}
  /\ an_pc' = "write_readme"
  /\ UNCHANGED <<inputVars, stdoutVars, crawlVars, sharedVars, workerVars, hist, batchVars,
                 last_scrape, data, data_summary, probe, query, result>>

\* lines 260-288: write README.md and return
AnalyzeWriteReadme ==
  /\ an_pc = "write_readme"
  /\ files' = files \cup {"README.md"}
  /\ an_pc' = "returned"
  /\ UNCHANGED <<inputVars, stdoutVars, crawlVars, sharedVars, workerVars, hist, batchVars,
                 last_scrape, data, data_summary, probe, query, result>>

\* cli.py lines 115-123 and 172-181: the closing panel, after the try
CliEpilogue ==
  /\ an_pc = "returned"
  /\ an_pc' = "done"
  /\ UNCHANGED <<inputVars, stdoutVars, crawlVars, sharedVars, workerVars, hist, batchVars,
                 last_scrape, data, data_summary, probe, query, result, files>>

InTry == {"probe", "prepare", "query", "write_json", "write_readme"}

\* KeyboardInterrupt in the analysis branch: inside analyze_with_ollama the
\* handlers of cli.py lines 111-113 and 168-170 apply (the `except
\* Exception` clauses of the analyzer do not catch it); before and after
\* the try none of cli's own handlers does.
AnalyzeInterrupt ==
  /\ an_pc \in InTry \cup {"cli", "returned"}
  /\ an_pc' = "exited"
  /\ \E entry \in Entries :
       hist' = [hist EXCEPT !.exit = InterruptExit(an_pc \in InTry, entry)]
  /\ UNCHANGED <<inputVars, stdoutVars, crawlVars, sharedVars, workerVars, batchVars,
                 last_scrape, data, data_summary, probe, query, result, files>>

AnalyzeNext ==
  \/ CliAnalyze \/ CliRunPhase2 \/ AnalyzeProbe \/ AnalyzePrepare \/ AnalyzeQuery
  \/ AnalyzeWriteJson \/ AnalyzeWriteReadme \/ CliEpilogue

(* ---------------------------- specification --------------------------- *)
Next ==
  \/ CrawlNext \/ Interrupt \/ WorkerNext \/ BatchNext \/ BatchInterrupt
  \/ AnalyzeNext \/ AnalyzeInterrupt

Spec == Init /\ [][Next]_vars

\* The scheduler runs both threads; only the operator's Ctrl+C and the
\* return of a model call are not guaranteed.
FairSpec ==
  /\ Spec
  /\ WF_vars(CrawlNext) /\ WF_vars(WorkerNext) /\ WF_vars(BatchNext)
  /\ WF_vars(AnalyzeNext)

TypeOK ==
  /\ command \in {"crawl", "scrape", "analyze", "run"}
  /\ sys_stdout \in {"none", "orig", "StringIO"}
  /\ old_stdout \in {"none", "orig", "StringIO"}
  /\ worker_old_stdout \in {"none", "orig", "StringIO"}
  /\ max_pages \in 0..MaxPagesBound
  /\ analyze \in BOOLEAN
  /\ pc \in Running \cup Draining \cup {"done", "exited", "crashed", "unused"}
  /\ Range(queue) \subseteq Urls
  /\ visited \subseteq Urls
  /\ current_url \in Urls \cup {0}
  /\ scraped_count \in 0..MaxPagesBound
  /\ html \in Pages
  /\ manifest \in {"unset", "none", "manifest"}
  /\ Range(analysis_queue) \subseteq Urls
  /\ unfinished_tasks \in 0..NumUrls
  /\ analysis_results \in [Urls -> {"absent", "queued", "analyzing", "complete"}]
  /\ wpc \in {"unstarted", "check", "get", "mark", "analyze", "complete", "task_done",
              "hung", "exited"}
  /\ page \in Urls \cup {0}
  /\ sm_pc \in {"unused", "cli", "loop", "done", "crashed", "exited", "returned"}
  /\ an_pc \in InTry \cup {"unused", "cli", "returned", "done", "exited"}
  /\ data \in DataSets
  /\ data_summary \in 0..(DefaultMaxChars + MarkerLen)
  /\ probe \in Probes \cup {NoProbe}
  /\ query \in Queries \cup {NoRequest}
  /\ files \subseteq {"analysis.json", "README.md"}
  /\ hist.exit \in {"none", "exit 0", "traceback"}

(* ------------------------------ properties ---------------------------- *)
Rank(status) == CASE status = "queued" -> 1
                  [] status = "analyzing" -> 2
                  [] status = "complete" -> 3
                  [] OTHER -> 0

\* the URLs known to be reachable from the start URL: every fetched page was
\* itself reachable, so these are the start URL and all links extracted so far
Reachable == hist.reachable

Submitted == {u \in Urls : hist.puts[u] > 0}

\* C1: no URL is at once visited and in the frontier, and the loop never
\* dequeues a URL that is already visited (line 244 is never executed).
C1_VisitedNeverQueued ==
  /\ visited \cap Range(queue) = {}
  /\ ~hist.skip_taken

\* C1 witness: a page that links back to a visited URL has been processed
\* while other URLs wait in the frontier.
C1_Witness ==
  /\ hist.backlink
  /\ Cardinality(visited) >= 2
  /\ queue # <<>>

\* C2: the values written to analysis_results[url] are 'queued', 'analyzing'
\* and 'complete' only, in strictly that order, and the entry holds the last
\* value written.
C2_StatusMonotonic ==
  \A u \in Urls :
    LET w == hist.writes[u] IN
      /\ \A i \in 1..Len(w) : w[i] \in {"queued", "analyzing", "complete"}
      /\ \A i, j \in 1..Len(w) : i < j => Rank(w[i]) < Rank(w[j])
      /\ analysis_results[u] = IF w = <<>> THEN "absent" ELSE w[Len(w)]

\* C2 witness: one URL went through all three values while the crawl loop
\* was still submitting.
C2_Witness ==
  /\ pc \in Running
  /\ \E u \in Urls : hist.writes[u] = <<"queued", "analyzing", "complete">>
  /\ \E u \in Urls : analysis_results[u] = "queued"

\* C3: when crawl() reports the final analysis count, every submitted task
\* was taken and acknowledged: the queue is empty, no task is unfinished, no
\* status is 'queued'; a submitted URL is 'complete', or 'analyzing' if its
\* analysis raised.
C3_DrainedAtReport ==
  (pc = "report") =>
    /\ analysis_queue = <<>>
    /\ unfinished_tasks = 0
    /\ \A u \in Urls : analysis_results[u] # "queued"
    /\ \A u \in Submitted :
         /\ hist.gets[u] = hist.puts[u]
         /\ analysis_results[u] = IF u \in hist.failed THEN "analyzing" ELSE "complete"

\* C3 witness: the report is reached after one analysis completed and
\* another one failed.
C3_Witness ==
  /\ pc = "report"
  /\ \E u \in Urls : analysis_results[u] = "complete"
  /\ \E u \in Urls : analysis_results[u] = "analyzing"

\* C4: scraped_count never exceeds max_pages nor the number of visited URLs;
\* when the loop exits, no fetch has failed and at least max_pages URLs are
\* reachable from the start URL, scraped_count equals max_pages.
C4_BudgetRespected ==
  /\ scraped_count <= max_pages
  /\ scraped_count <= Cardinality(visited)
  /\ (pc = "harvest" /\ ~hist.fetch_failed /\ Cardinality(Reachable) >= max_pages)
       => scraped_count = max_pages

\* C4 witness: the loop exits on the budget with URLs left in the frontier.
C4_Witness ==
  /\ pc = "harvest"
  /\ ~hist.fetch_failed
  /\ max_pages >= 2
  /\ Cardinality(Reachable) > max_pages
  /\ scraped_count = max_pages
  /\ queue # <<>>

\* C5: a scrape_website whose fetch reports ok = false returns None; a crawl
\* iteration whose fetch reports ok = false ends with scraped_count, the
\* frontier and the submitted tasks as they were after the dequeue, and the
\* URL visited.
C5_FetchFailureIsQuiet ==
  /\ (last_scrape.fetched /\ ~last_scrape.ok) => last_scrape.kind = "none"
  /\ (pc = "sleep" /\ ~success) =>
       /\ scraped_count = hist.iter.count
       /\ queue = hist.iter.queue
       /\ TotalPuts = hist.iter.puts
       /\ analysis_results[current_url] = "absent"
       /\ current_url \in visited

\* C5 witness: an iteration whose fetch failed, in a crawl where an earlier
\* scrape_website also saw its fetch fail, with URLs waiting in the frontier.
C5_Witness ==
  /\ pc = "sleep" /\ ~success
  /\ queue # <<>>
  /\ scraped_count > 0
  /\ last_scrape.fetched /\ ~last_scrape.ok

\* C6: no task is taken twice, no URL is submitted twice, at most one worker
\* thread is started, and when crawl() has returned every submitted task
\* was taken exactly once.
C6_AtMostOnce ==
  /\ \A u \in Urls : hist.gets[u] <= 1 /\ hist.puts[u] <= 1 /\ hist.gets[u] <= hist.puts[u]
  /\ threads_started <= 1
  /\ (pc = "done") => \A u \in Submitted : hist.gets[u] = 1

\* C6 witness: crawl() returned after two tasks were submitted and taken.
C6_Witness ==
  /\ pc = "done"
  /\ \E u, v \in Urls : u # v /\ hist.gets[u] = 1 /\ hist.gets[v] = 1

\* C7: when the analysis of a task raises, nothing is written to its status
\* or to analyzed_count, the task is acknowledged with its status still
\* 'analyzing', and the worker returns to the head of its loop; the worker
\* exits only when the stop signal is set.
C7_WorkerSurvivesFailure ==
  /\ [][ /\ (wpc = "analyze" /\ wpc' = "task_done") =>
              /\ analyzed_count' = analyzed_count
              /\ analysis_results'[page] = "analyzing"
         /\ (wpc = "task_done" /\ wfailed /\ wpc' # wpc) =>
              /\ wpc' = "check"
              /\ unfinished_tasks' = unfinished_tasks - 1
              /\ analyzed_count' = analyzed_count
              /\ analysis_results'[page] = "analyzing" ]_vars
  /\ [](wpc = "exited" => stop_analysis)

\* C7 witness: the worker analyses a task while an earlier task, whose
\* analysis raised, still has status 'analyzing'.
C7_Witness ==
  /\ wpc = "analyze"
  /\ \E u \in hist.failed : u # page /\ analysis_results[u] = "analyzing"

\* C8: an interruption that arrives in the running phase with analysis
\* enabled is followed by the drain phase before the program exits.
C8_InterruptStillDrains ==
  (pc = "exited" /\ analyze /\ hist.interrupted_in = "running") => hist.drain_entered

\* C9: once the main loop has exited, crawl() reaches its end (or the
\* operator interrupts it), even if a model call never returns.
C9_DrainIsBounded ==
  (pc = "harvest") ~> (pc \in {"done", "exited"})

\* C10: an error while processing one URL aborts neither the crawl nor the
\* batch.
C10_ErrorsConfined ==
  /\ pc # "crashed"
  /\ sm_pc # "crashed"

\* C11: the frontier never holds a URL twice, the visited set only grows,
\* and no URL is dequeued (hence marked visited or processed) more than once.
C11_FrontierUnique ==
  /\ [](NoDuplicates(queue) /\ \A u \in Urls : hist.pops[u] <= 1)
  /\ [][visited \subseteq visited']_vars

\* C11 witness: two URLs were dequeued, a page linked to a queued or visited
\* URL again, and the frontier holds several URLs.
C11_Witness ==
  /\ \E u, v \in Urls : u # v /\ hist.pops[u] = 1 /\ hist.pops[v] = 1
  /\ hist.backlink
  /\ queue # <<>>

C13_LoopTerminates ==
  /\ [](pc = "harvest" => (queue = <<>> \/ scraped_count = max_pages))
  /\ [][(pc = "loop" /\ pc' # pc) =>
          \/ pc' = "exited"
          \/ (pc' = "harvest") <=> (queue = <<>> \/ scraped_count >= max_pages)]_vars
  /\ <>(pc \notin Running)

\* C13 witness: the loop was left on an empty frontier after several
\* iterations, one of them with a failed fetch, the budget not used up.
C13_Witness ==
  /\ pc = "harvest"
  /\ queue = <<>>
  /\ hist.fetch_failed
  /\ Cardinality(visited) >= 2
  /\ scraped_count < max_pages

\* C14: the stop signal is set only when no task is queued or unfinished;
\* the worker leaves its loop only then; nothing is submitted after the
\* main loop has exited; once the stop signal is set the worker takes no
\* task and terminates.
C14_OrderedShutdown ==
  /\ [](stop_analysis => (unfinished_tasks = 0 /\ analysis_queue = <<>>))
  /\ [](wpc = "exited" => (stop_analysis /\ unfinished_tasks = 0 /\ analysis_queue = <<>>))
  /\ [][ /\ pc \notin Running => hist.puts' = hist.puts
         /\ stop_analysis => hist.gets' = hist.gets ]_vars
  /\ (stop_analysis ~> (wpc = "exited" \/ pc = "exited"))

\* C14 witness: the worker has left its loop after the stop signal, with two
\* tasks submitted and processed before.
C14_Witness ==
  /\ wpc = "exited"
  /\ stop_analysis
  /\ \E u, v \in Urls : u # v /\ hist.gets[u] = 1 /\ hist.gets[v] = 1

\* C15: whenever fetch_with_curl reports ok = false, the content it returns
\* is the empty string (seen in the crawl iteration that received it).
C15_FailureHasEmptyContent ==
  (pc = "sleep" /\ ~success) => html = EmptyHtml

\* C16: extract_metadata never raises.
C16_MetadataNeverRaises ==
  ~last_scrape.metadata_raised

\* C17: every list extract_links may return for the fetched markup and the
\* current URL has only URLs of the host of the current URL, with scheme
\* http or https, without fragment, other than the current URL, each once.
C17_LinksAreClean ==
  (pc = "links") =>
    \A r \in extract_links(html, current_url) :
      /\ NoDuplicates(r)
      /\ \A i \in 1..Len(r) :
           /\ Netloc(r[i]) = Netloc(current_url)
           /\ Scheme(r[i]) \in {"http", "https"}
           /\ ~HasFragment(r[i])
           /\ r[i] # current_url

\* C17 witness: links are extracted from markup that names a foreign URL
\* and another URL of the site twice, once with a fragment.
C17_Witness ==
  /\ pc = "links"
  /\ \E u \in Urls : u # current_url /\ html.hrefs = {Ext, u, WithFragment(u)}

\* C18: the list extract_js_links returned has no duplicates, holds exactly
\* the resolved URLs of the script src attributes, is no longer than their
\* number, and is empty when there is none.
C18_JsLinksDistinct ==
  LET srcs == last_scrape.srcs
      js_links == last_scrape.js_links IN
    /\ NoDuplicates(js_links)
    /\ Range(js_links) = {urljoin(srcs[i]) : i \in 1..Len(srcs)}
    /\ Len(js_links) <= Len(srcs)
    /\ srcs = <<>> => js_links = <<>>

\* C18 witness: scrape_website extracted the script links of markup that
\* names one script more than once.
C18_Witness ==
  /\ last_scrape.js_links # <<>>
  /\ Len(last_scrape.js_links) < Len(last_scrape.srcs)

\* C19: a second run on the same input gives the same frontier and the same
\* attempted and downloaded scripts, in the same order.
C19_OrderIndependent ==
  /\ ~hist.rerun_differs
  /\ ~last_scrape.rerun_differs

\* C20: a scrape_website that returns a manifest attempted at most
\* MaxJsDownloads downloads; the manifest has success = true, js_files is the
\* list of attempted URLs whose download did not fail, js_count is its
\* length; with download_js false nothing is attempted and js_files is empty.
C20_JsDownloadsBounded ==
  (last_scrape.kind = "manifest") =>
    /\ Len(last_scrape.attempted) <= MaxJsDownloads
    /\ Range(last_scrape.attempted) \subseteq Range(last_scrape.js_links)
    /\ last_scrape.success
    /\ last_scrape.js_files =
         SelectSeq(last_scrape.attempted, LAMBDA u : u \notin last_scrape.failed)
    /\ last_scrape.js_count = Len(last_scrape.js_files)
    /\ last_scrape.js_count <= MaxJsDownloads
    /\ ~download_js => (last_scrape.attempted = <<>> /\ last_scrape.js_files = <<>>)

\* C20 witness: a manifest was returned for markup with more scripts than
\* the limit, some of whose downloads failed and some succeeded.
C20_Witness ==
  /\ last_scrape.kind = "manifest"
  /\ Len(last_scrape.js_links) > MaxJsDownloads
  /\ last_scrape.failed # {}
  /\ last_scrape.js_files # <<>>

\* C30: an iteration that has dequeued a URL for fetching comes back to the
\* loop test only through the pause of line 288: a fetch goes on to the link
\* extraction or, when it failed, to the pause; no position between the fetch
\* and the pause leads to the loop test; the pause leads to the loop test.
C30_PauseEveryIteration ==
  [][ /\ (pc = "fetch" /\ pc' # "fetch") => pc' \in {"links", "sleep", "exited"}
      /\ pc \in {"fetch", "links", "scrape", "mark_queued", "put"} => pc' # "loop"
      /\ (pc = "sleep" /\ pc' # "sleep") => pc' \in {"loop", "exited"} ]_vars

\* C30 witness: the pause is reached after a failed fetch in a run whose
\* earlier iteration scraped a page, and a URL is still waiting.
C30_Witness ==
  /\ pc = "sleep" /\ ~success /\ manifest = "unset"
  /\ scraped_count >= 1 /\ queue # <<>>

IsPrefix(s, t) == Len(s) <= Len(t) /\ SubSeq(t, 1, Len(s)) = s

C29_MainLoopNeverWaits ==
  /\ pc = "mark_queued" => ENABLED CrawlMarkQueued
  /\ pc = "put" => ENABLED CrawlPut
  /\ pc = "sleep" => ENABLED CrawlSleep
  /\ pc = "loop" => ENABLED (CrawlDequeue \/ CrawlLoopExit)

\* C29 witness: the main loop has reached its exit with more than one page
\* scraped and submitted while the worker has not taken a single page: an
\* earlier URL is still 'queued'.
C29_Witness ==
  /\ pc = "harvest" /\ analyze /\ scraped_count > 1
  /\ wpc = "check" /\ \A u \in Urls : hist.gets[u] = 0
  /\ \E u \in Urls : u # current_url /\ analysis_results[u] = "queued"
  /\ Len(analysis_queue) > 1

\* the manifests expected after the first n input URLs: those of the URLs
\* whose scrape gave a manifest, in input order, one per occurrence
ExpectedManifests(n) ==
  LET idx == SelectSeq([i \in 1..n |-> i], LAMBDA i : hist.scraped_ok[i])
  IN [k \in 1..Len(idx) |-> urls[idx[k]]]

\* C25: while scrape_multiple runs, manifests holds the manifests of the
\* input URLs scraped so far that gave one, in input order; the index is
\* written exactly when the loop has ended normally, also when it is empty,
\* and holds that list for the whole input.
C25_IndexOfSuccesses ==
  /\ sm_pc \in {"loop", "done"} =>
       /\ Len(hist.scraped_ok) = sm_i - 1
       /\ manifests = ExpectedManifests(sm_i - 1)
  /\ sm_pc = "loop" => ~hist.index_written
  /\ sm_pc = "done" =>
       /\ sm_i = Len(urls) + 1
       /\ hist.index_written
       /\ hist.index = ExpectedManifests(Len(urls))

\* C25 witness: the same URL was given twice, its first scrape gave no
\* manifest and its second did; the index holds one entry.
C25_Witness ==
  /\ sm_pc = "done" /\ Len(urls) = MaxBatch
  /\ urls[1] = urls[MaxBatch]
  /\ ~hist.scraped_ok[1] /\ hist.scraped_ok[MaxBatch]
  /\ Len(hist.index) < MaxBatch

\* the answer a stream of lines stands for: the 'response' fields of its
\* chunks in arrival order, up to and including the first chunk with done =
\* true; lines that are no chunks count for nothing
RECURSIVE ConcatUntilDone(_)
ConcatUntilDone(lines) ==
  IF lines = <<>> THEN <<>>
  ELSE LET line == Head(lines) IN
    IF line.kind # "chunk" THEN ConcatUntilDone(Tail(lines))
    ELSE (IF line.has_response THEN <<line.response>> ELSE <<>>)
           \o (IF line.done THEN <<>> ELSE ConcatUntilDone(Tail(lines)))

\* the request met a failure: no answer in time, no connection, or a status
\* other than 200
IsFailure(q) ==
  \/ q.kind \in {"timeout", "connection"}
  \/ q.kind = "response" /\ q.status # HttpOk

\* C21: for a 200 response whose lines are chunks, empty lines and lines
\* that cannot be parsed, stream_ollama_response returns the 'response'
\* fields of the chunks up to the first done = true, joined in arrival order.
C21_StreamConcatenation ==
  ( /\ query.kind = "response" /\ query.status = HttpOk
    /\ \A i \in 1..Len(query.lines) :
         query.lines[i].kind \in {"chunk", "empty", "garbage", "undecodable"} )
  => result = ConcatUntilDone(query.lines)

\* C22: a request that met a failure gives a result that line 237 of
\* analyze_with_ollama takes for a failure.
C22_FailuresRecognised ==
  IsFailure(query) => StartsWithError(result)

\* C23: after a failed request no file is written, and analyze_with_ollama
\* is at no position that writes one.
C23_NoFilesOnFailure ==
  IsFailure(query) =>
    /\ files = {}
    /\ an_pc \notin {"write_json", "write_readme"}

\* C24: the model is queried only after a probe answered with status 200;
\* after any other probe analyze_with_ollama has returned (or the run was
\* interrupted) with no query sent, no summary made and no file written.
C24_QueryOnlyAfterProbe ==
  /\ (query # NoRequest \/ an_pc \in {"prepare", "query", "write_json", "write_readme"})
       => (probe.kind = "response" /\ probe.status = HttpOk)
  /\ (probe # NoProbe /\ ~(probe.kind = "response" /\ probe.status = HttpOk)) =>
       /\ an_pc \in {"returned", "done", "exited"}
       /\ query = NoRequest /\ result = <<>> /\ data_summary = 0
       /\ files = {}

\* C24 witness: the server answered the probe with another status than 200
\* and analyze_with_ollama has returned, with sites loaded and nothing done.
C24_Witness ==
  /\ an_pc = "returned"
  /\ probe.kind = "response" /\ probe.status # HttpOk
  /\ data # <<>> /\ query = NoRequest /\ files = {}

\* analyze_with_ollama has made its summary of the data (line 224)
Summarised == an_pc \in {"query", "write_json", "write_readme"} \/ query # NoRequest

\* C26 as claimed: a scraped text has at most MaxTextLen characters, and the
\* summary of prepare_analysis_data has at most max_chars characters (none
\* for an empty list).
C26_LengthBounds ==
  /\ last_scrape.text_content <= MaxTextLen
  /\ Summarised =>
       /\ data_summary <= DefaultMaxChars
       /\ \A max_chars \in {0, 50, DefaultMaxChars} :
            /\ prepare_analysis_data(data, max_chars) <= max_chars
            /\ data = <<>> => prepare_analysis_data(data, max_chars) = 0

\* C26 amended: a scraped text has at most MaxTextLen characters; the
\* summary of prepare_analysis_data has at most max_chars + MarkerLen
\* characters: the joined site infos when they fit into max_chars, else
\* their first max_chars characters followed by the truncation marker; it is
\* empty for an empty list.
C26_LengthBoundsAmended ==
  /\ last_scrape.text_content <= MaxTextLen
  /\ Summarised =>
       /\ data_summary <= DefaultMaxChars + MarkerLen
       /\ \A max_chars \in {0, 50, DefaultMaxChars} :
            /\ prepare_analysis_data(data, max_chars) <= max_chars + MarkerLen
            /\ joined_len(data) <= max_chars
                 => prepare_analysis_data(data, max_chars) = joined_len(data)
            /\ joined_len(data) > max_chars
                 => prepare_analysis_data(data, max_chars) = max_chars + MarkerLen
            /\ data = <<>> => prepare_analysis_data(data, max_chars) = 0

\* C26 witness: sites, one of them with a text of MaxTextLen characters,
\* whose joined infos exceed DefaultMaxChars were summarised for the query.
C26_Witness ==
  /\ an_pc = "query"
  /\ \E i \in 1..Len(data) : data[i].text = MaxTextLen
  /\ joined_len(data) > DefaultMaxChars
  /\ data_summary = DefaultMaxChars + MarkerLen

\* C27: Ctrl+C never ends the process with a traceback.
C27_InterruptExitsZero ==
  hist.exit # "traceback"

\* C31: the 'complete' entries are never more than analyzed_count and at
\* most one fewer (between lines 200 and 202); when crawl() has returned
\* from a crawl with analysis, the number it printed, analyzed_count and the
\* number of 'complete' entries are equal.
C31_AnalyzedCountMatches ==
  /\ CompleteCount <= analyzed_count
  /\ analyzed_count <= CompleteCount + 1
  /\ (pc = "done" /\ analyze) =>
       /\ hist.complete_count = analyzed_count
       /\ CompleteCount = analyzed_count

\* C31 witness: crawl() has returned with one page analysed and another
\* whose analysis raised.
C31_Witness ==
  /\ pc = "done" /\ analyze
  /\ hist.complete_count >= 1
  /\ hist.failed # {}

\* C36: the file names under which the worker saved the analyses of one
\* crawl are pairwise different, and there are analyzed_count of them.
C36_DistinctAnalysisFiles ==
  /\ NoDuplicates(hist.analysis_files)
  /\ Len(hist.analysis_files) = analyzed_count

\* C36 witness: two analyses of pages of the same domain were saved.
C36_Witness ==
  /\ Len(hist.analysis_files) >= 2
  /\ hist.analysis_files[1][1] = hist.analysis_files[2][1]

\* C37: every URL in the frontier or in the visited set has the netloc of
\* the start URL.
C37_SameHost ==
  \A u \in Range(queue) \cup visited : Netloc(u) = Netloc(start_url)

\* C37 witness: the links of a page with an href to a foreign host were
\* extracted and the frontier received links of that page.
C37_Witness ==
  /\ pc = "scrape"
  /\ hist.offsite
  /\ queue # <<>>

\* urls that have an entry in analysis_results
StatusEntries == {u \in Urls : analysis_results[u] # "absent"}

\* C38: a page is submitted for analysis only when analysis is enabled and
\* scrape_website returned a manifest for its URL; every task in the
\* analysis queue has a status entry; there are never more status entries
\* than scraped_count; with analysis disabled no worker is started and the
\* drain phase is not entered.
C38_SubmissionConditions ==
  /\ Submitted # {} => analyze
  /\ Submitted \subseteq hist.with_manifest
  /\ Range(analysis_queue) \subseteq StatusEntries
  /\ StatusEntries \subseteq hist.with_manifest
  /\ Cardinality(StatusEntries) <= scraped_count
  /\ ~analyze => /\ threads_started = 0
                 /\ ~hist.drain_entered
                 /\ pc \notin {"join", "stop", "thread_join", "report"}

\* C38 witness: with analysis enabled, a page was submitted and the scrape of
\* a later URL returned no manifest; that URL was not submitted.
C38_Witness ==
  /\ analyze
  /\ pc = "sleep"
  /\ manifest = "none"
  /\ Submitted # {}
  /\ current_url \notin Submitted
  /\ analysis_queue # <<>>

\* C33: scraped_count is the number of URLs for which scrape_website returned
\* a manifest; an iteration whose scrape_website returned None leaves
\* scraped_count and the frontier as they were when the URL was dequeued.
C33_CountsManifests ==
  /\ scraped_count = Cardinality(hist.with_manifest)
  /\ (pc = "sleep" /\ manifest = "none") =>
       /\ scraped_count = hist.iter.count
       /\ queue = hist.iter.queue

\* C34: fetch_with_curl is called at most once for the URL being processed,
\* and exactly once when its page was scraped.
C34_FetchedOnce ==
  /\ hist.fetches <= 1
  /\ (pc \in {"mark_queued", "put", "sleep"}) => hist.fetches = 1

\* the files of the crawl that, by their name, are records of kind
\* "manifest.json" or "index.html"
FilesNamed(name) == {p \in DOMAIN hist.site_files : p[2] = name}

\* C35: the URLs scraped with a manifest have as many manifest files and as
\* many HTML files as there are URLs, and each URL's files hold its record.
C35_RecordsNotOverwritten ==
  /\ Cardinality(FilesNamed("manifest.json")) = Cardinality(hist.with_manifest)
  /\ \A u \in hist.with_manifest :
       /\ hist.site_files[manifest_path(u)] = u
       /\ hist.site_files[html_path(u)] = u

\* C32: whenever, in the running process, neither the main loop nor the
\* worker is inside its output-suppressed section, sys.stdout is the
\* original stream; it is the original stream when crawl() has returned.
C32_StdoutRestored ==
  /\ (ProcessAlive /\ ~InMainSection /\ ~InWorkerSection) => sys_stdout = "orig"
  /\ pc = "done" => sys_stdout = "orig"

====
